---------------------------- MODULE Spec2Model ----------------------------
(***************************************************************************)
(* Model of the Google-Sheets-to-Supabase load scripts                     *)
(*   tools/create_table_and_insert.py   (replace path)                     *)
(*   tools/upsert_to_supabase.py        (upsert path)                      *)
(*   tools/fetch_google_sheet.py        (fetch step)                       *)
(*                                                                         *)
(* Python strings are TLA+ strings, read with Len, SubSeq and \o.  A row   *)
(* (an insertion-ordered dict) is a sequence of <<key, value>> pairs with  *)
(* pairwise distinct keys.                                                 *)
(***************************************************************************)
EXTENDS Integers, Sequences, FiniteSets, TLC

VARIABLES
    pc,         \* position of the running function or script
    raw,        \* sanitize_column_name: its argument
    name,       \* sanitize_column_name: its return value
    headers,    \* build_column_map: its argument
    pos,        \* build_column_map: index of the header the for loop is at
    seen,       \* build_column_map: dict name -> counter
    result,     \* build_column_map: list of (header, sanitized) pairs
    base,       \* build_column_map: sanitized name of the current header
    candidate,  \* build_column_map: disambiguated name being tried
    rows,       \* filter_rows / main: the row list
    kept,       \* filter_rows: its return value
    again,      \* filter_rows applied to its own result
    script,     \* which script's main() runs
    env,        \* the settings that are set (non-empty) in .env
    file,       \* .tmp/sheet_data.json: "absent", "notlist" or "list"
    stored,     \* the rows in .tmp/sheet_data.json
    io,         \* the I/O done so far, in order
    sent,       \* what was handed to the database collaborator, in order
    exit        \* "running", "ok" (exit status 0) or "error" (uncaught exception)

sanVars == <<raw, name>>
mapVars == <<headers, pos, seen, result, base, candidate>>
filVars == <<rows, kept, again>>
drvVars == <<script, env, file, stored, io, sent, exit>>
vars == <<pc, raw, name, headers, pos, seen, result, base, candidate,
          rows, kept, again, script, env, file, stored, io, sent, exit>>

-----------------------------------------------------------------------------
(* Bounds of the model *)

MaxRawLen == 3      \* longest short header the sanitizer is run on
MaxHeaders == 3     \* longest header list build_column_map is run on
MaxRows == 3        \* longest row list filter_rows is run on
MaxStored == 2      \* most rows in .tmp/sheet_data.json when main() runs
MaxCount == 8       \* cap on the counter of the disambiguation loop

(* PostgreSQL NAMEDATALEN - 1 *)
MaxIdentLen == 63

-----------------------------------------------------------------------------
(* Python str helpers *)

Min(a, b) == IF a < b THEN a ELSE b

Char(s, i) == SubSeq(s, i, i)

LowerChars == "abcdefghijklmnopqrstuvwxyz"
UpperChars == "ABCDEFGHIJKLMNOPQRSTUVWXYZ"
DigitChars == "0123456789"
SpaceChars == " \t\n\r"

CharSet(chars) == {Char(chars, i) : i \in 1..Len(chars)}
LowerSet == CharSet(LowerChars)
UpperSet == CharSet(UpperChars)
DigitSet == CharSet(DigitChars)
SpaceSet == CharSet(SpaceChars)

Rest(s) == SubSeq(s, 2, Len(s))

(* The recursive helpers are functions rather than operators: a function
   is applied to the value of its argument. *)
Rep[c \in STRING, n \in Nat] == IF n = 0 THEN "" ELSE c \o Rep[c, n - 1]

(* str.lstrip(chars) / str.rstrip(chars) / str.strip() *)
lstrip[s \in STRING, chars \in SUBSET STRING] ==
    IF s # "" /\ Char(s, 1) \in chars THEN lstrip[Rest(s), chars] ELSE s

rstrip[s \in STRING, chars \in SUBSET STRING] ==
    IF s # "" /\ Char(s, Len(s)) \in chars
    THEN rstrip[SubSeq(s, 1, Len(s) - 1), chars]
    ELSE s

strip(s) == rstrip[lstrip[s, SpaceSet], SpaceSet]

(* str.lower() on the ASCII range *)
ToLower ==
    [c \in UpperSet |->
        Char(LowerChars, CHOOSE i \in 1..Len(UpperChars) : Char(UpperChars, i) = c)]

lower_char(c) == IF c \in UpperSet THEN ToLower[c] ELSE c

lower[s \in STRING] ==
    IF s = "" THEN "" ELSE lower_char(Char(s, 1)) \o lower[Rest(s)]

IsIdentChar(c) == c \in LowerSet \/ c \in DigitSet \/ c = "_"

(* re.sub(r"[^a-z0-9_]", "_", name) *)
sub_non_ident[s \in STRING] ==
    IF s = "" THEN ""
    ELSE (IF IsIdentChar(Char(s, 1)) THEN Char(s, 1) ELSE "_") \o sub_non_ident[Rest(s)]

(* re.sub(r"_+", "_", name) *)
sub_underscores[s \in STRING] ==
    IF s = "" THEN ""
    ELSE IF Char(s, 1) = "_"
         THEN "_" \o sub_underscores[lstrip[s, {"_"}]]
         ELSE Char(s, 1) \o sub_underscores[Rest(s)]

isdigit(c) == c \in DigitSet

(* str[n] for n >= 0 *)
str[n \in Nat] ==
    IF n < 10 THEN Char(DigitChars, n + 1)
    ELSE str[n \div 10] \o Char(DigitChars, (n % 10) + 1)

(* s.replace(old, new) for a one-character old *)
replace[s \in STRING, old \in STRING, new \in STRING] ==
    IF s = "" THEN ""
    ELSE (IF Char(s, 1) = old THEN new ELSE Char(s, 1)) \o replace[Rest(s), old, new]

-----------------------------------------------------------------------------
(* sanitize_column_name *)

(* name[:63] *)
Truncate(s) == SubSeq(s, 1, Min(Len(s), MaxIdentLen))

(* a prefix step that leaves a leading digit in place *)
DigitPrefixMissing(s) == s

(* if name[0].isdigit(): name = "col_" + name *)
DigitPrefix(s) == IF isdigit(Char(s, 1)) THEN "col_" \o s ELSE s

sanitize_column_name(r) ==
    LET stripped == strip(r) IN
    IF stripped = "" THEN "_unnamed"
    ELSE LET lowered   == lower[stripped]
             replaced  == sub_non_ident[lowered]
             collapsed == sub_underscores[replaced]
             unled     == lstrip[collapsed, {"_"}]
         IN  IF unled = "" THEN "_unnamed"
             ELSE Truncate(DigitPrefix(unled))

-----------------------------------------------------------------------------
(* Idle values of the parts a specification does not run *)

SanIdle == raw = "" /\ name = ""
MapIdle == /\ headers = <<>> /\ pos = 1 /\ seen = <<>> /\ result = <<>>
           /\ base = "" /\ candidate = ""
FilIdle == rows = <<>> /\ kept = <<>> /\ again = <<>>
DrvIdle == /\ script = "none" /\ env = {} /\ file = "absent" /\ stored = <<>>
           /\ io = <<>> /\ sent = <<>> /\ exit = "running"

-----------------------------------------------------------------------------
(* Specification SpecSanitize: sanitize_column_name run on one header *)

RECURSIVE StringsOver(_, _)
StringsOver(chars, n) ==
    IF n = 0 THEN {""}
    ELSE LET shorter == StringsOver(chars, n - 1)
         IN  shorter \cup {s \o Char(chars, i) : s \in shorter, i \in 1..Len(chars)}

(* one character of each class the function tells apart *)
RawAlphabet == "aZ7_ !"

(* a long run of one character, so that the 63-character limit is reached *)
RawPads == {""} \cup {Rep[Char("a7_", k), n] : k \in 1..3, n \in (MaxIdentLen - 4)..MaxIdentLen}

RawInputs == {p \o s : p \in RawPads, s \in StringsOver(RawAlphabet, MaxRawLen)}

InitSanitize ==
    /\ pc = "call"
    /\ raw \in RawInputs
    /\ name = ""
    /\ MapIdle /\ FilIdle /\ DrvIdle

Sanitize ==
    /\ pc = "call"
    /\ name' = sanitize_column_name(raw)
    /\ pc' = "ret"
    /\ UNCHANGED <<raw, mapVars, filVars, drvVars>>

NextSanitize == Sanitize

SpecSanitize == InitSanitize /\ [][NextSanitize]_vars

(* the properties of the returned identifier *)
LengthOk(s) == Len(s) <= MaxIdentLen
CharsOk(s) == \A i \in 1..Len(s) : IsIdentChar(Char(s, i))

(* C2, as stated: the returned string has length at most 63, is made only of
   lowercase letters, digits and underscores, and its first character is
   neither an underscore nor a digit. *)
C2_AsStated ==
    pc = "ret" =>
        /\ LengthOk(name)
        /\ CharsOk(name)
        /\ Char(name, 1) # "_"
        /\ ~isdigit(Char(name, 1))

(* C2, amended: the returned string is non-empty, has length at most 63, is
   made only of lowercase letters, digits and underscores, never starts with
   a digit, and starts with an underscore only when it is the placeholder
   _unnamed. *)
C2_Sanitized ==
    pc = "ret" =>
        /\ name # ""
        /\ LengthOk(name)
        /\ CharsOk(name)
        /\ ~isdigit(Char(name, 1))
        /\ (Char(name, 1) = "_" => name = "_unnamed")

(* a long header with no letter and no digit has been sanitized to the
   placeholder, which starts with an underscore *)
C2_Witness ==
    /\ pc = "ret"
    /\ Len(raw) > MaxIdentLen
    /\ name = "_unnamed"

-----------------------------------------------------------------------------
(* build_column_map, one step of its loops at a time *)

(* seen: dict[str, int] = {"id": 1} without the reservation *)
SeenInitEmpty == <<>>

(* seen: dict[str, int] = {"id": 1} *)
SeenInit == "id" :> 1

(* a candidate that is not cut to the identifier limit again *)
CandidateUncut(b, n) == b \o "_" \o str[n]

(* f"{base}_{seen[base]}"[:63] *)
Candidate(b, n) == Truncate(b \o "_" \o str[n])

(* while candidate in seen *)
WhileCond(c, sn) == c \in DOMAIN sn

Put(d, k, v) == [x \in DOMAIN d \cup {k} |-> IF x = k THEN v ELSE d[x]]

(* lines 89-94: the next header's base name is new *)
ForFresh ==
    /\ pc = "for"
    /\ pos <= Len(headers)
    /\ LET b == sanitize_column_name(headers[pos]) IN
       /\ b \notin DOMAIN seen
       /\ base' = b
       /\ seen' = Put(seen, b, 1)
       /\ result' = Append(result, <<headers[pos], b>>)
    /\ pos' = pos + 1
    /\ UNCHANGED <<pc, headers, candidate, sanVars, filVars, drvVars>>

(* lines 89-92, 95-97: the next header's base name was seen *)
ForSeen ==
    /\ pc = "for"
    /\ pos <= Len(headers)
    /\ LET b == sanitize_column_name(headers[pos]) IN
       /\ b \in DOMAIN seen
       /\ base' = b
       /\ seen' = Put(seen, b, seen[b] + 1)
       /\ candidate' = Candidate(b, seen[b] + 1)
    /\ pc' = "while"
    /\ UNCHANGED <<headers, pos, result, sanVars, filVars, drvVars>>

(* lines 98-100: the candidate is taken, try the next counter value *)
WhileTaken ==
    /\ pc = "while"
    /\ WhileCond(candidate, seen)
    /\ seen[base] < MaxCount
    /\ seen' = Put(seen, base, seen[base] + 1)
    /\ candidate' = Candidate(base, seen[base] + 1)
    /\ UNCHANGED <<pc, headers, pos, result, base, sanVars, filVars, drvVars>>

(* lines 98, 101-102: the candidate is free *)
WhileFree ==
    /\ pc = "while"
    /\ ~WhileCond(candidate, seen)
    /\ seen' = Put(seen, candidate, 1)
    /\ result' = Append(result, <<headers[pos], candidate>>)
    /\ pos' = pos + 1
    /\ pc' = "for"
    /\ UNCHANGED <<headers, base, candidate, sanVars, filVars, drvVars>>

(* line 104: return result, to the caller when main() runs *)
Return ==
    /\ pc = "for"
    /\ pos > Len(headers)
    /\ pc' = IF script = "replace" THEN "mapped" ELSE "done"
    /\ UNCHANGED <<mapVars, sanVars, filVars, drvVars>>

-----------------------------------------------------------------------------
(* Specification SpecColMap: build_column_map run on a list of headers *)

RECURSIVE SeqsOver(_, _)
SeqsOver(S, n) ==
    IF n = 0 THEN {<<>>}
    ELSE LET shorter == SeqsOver(S, n - 1)
         IN  shorter \cup {Append(q, x) : q \in {r \in shorter : Len(r) = n - 1}, x \in S}

(* headers that collide after sanitization, with the reserved name, with an
   earlier disambiguated name, and at the identifier limit *)
HeaderPool ==
    { "Id", "id_2", "Email", "EMAIL", "email_2", "",
      Rep["x", MaxIdentLen - 2], Rep["x", MaxIdentLen - 1],
      Rep["x", MaxIdentLen], Rep["x", MaxIdentLen + 1] }

InitColMap ==
    /\ pc = "for"
    /\ headers \in SeqsOver(HeaderPool, MaxHeaders)
    /\ pos = 1
    /\ seen = SeenInit
    /\ result = <<>>
    /\ base = ""
    /\ candidate = ""
    /\ SanIdle /\ FilIdle /\ DrvIdle

NextColMap == ForFresh \/ ForSeen \/ WhileTaken \/ WhileFree \/ Return

SpecColMap == InitColMap /\ [][NextColMap]_vars

(* every step of the function is taken when it can be *)
FairColMap == SpecColMap /\ WF_vars(NextColMap)

Sanitized(q) == {q[k][2] : k \in 1..Len(q)}

(* C1: the identifiers returned so far are pairwise distinct, none is the
   reserved name id, and so each identifier belongs to exactly one pair,
   whose first component is the header at the same position. *)
C1_UniqueNotReserved ==
    /\ \A j, k \in 1..Len(result) : j # k => result[j][2] # result[k][2]
    /\ \A k \in 1..Len(result) : result[k][2] # "id"
    /\ \A k \in 1..Len(result) : result[k][1] = headers[k]
    /\ \A s \in Sanitized(result) :
          Cardinality({k \in 1..Len(result) : result[k][2] = s}) = 1

(* the function returned for headers that all sanitize to the reserved name
   or to one another *)
C1_Witness ==
    /\ pc = "done"
    /\ Len(headers) = MaxHeaders
    /\ \E j, k \in 1..Len(headers) :
          /\ j < k
          /\ sanitize_column_name(headers[j]) = sanitize_column_name(headers[k])
    /\ \E k \in 1..Len(headers) : sanitize_column_name(headers[k]) = "id"

(* the names assigned before position k, and the reserved name *)
Assigned(k) == {"id"} \cup {result[j][2] : j \in 1..(k - 1)}

(* base_n, cut to 63 characters *)
CutCandidate(b, n) ==
    LET full == b \o "_" \o str[n] IN SubSeq(full, 1, Min(Len(full), MaxIdentLen))

(* the smallest n >= 2 whose cut candidate is not assigned *)
SmallestFree(b, k) ==
    CHOOSE n \in 2..(MaxCount + 1) :
        /\ CutCandidate(b, n) \notin Assigned(k)
        /\ \A m \in 2..(n - 1) : CutCandidate(b, m) \in Assigned(k)

(* C3: one pair per processed header, in header order; a header whose base
   name is neither reserved nor assigned before gets the base name, any other
   gets base_n cut to 63 characters for the smallest n >= 2 whose cut
   candidate is not yet assigned. *)
C3_InOrderSmallestSuffix ==
    /\ Len(result) = pos - 1
    /\ pc = "done" => Len(result) = Len(headers)
    /\ \A k \in 1..Len(result) :
          LET b == sanitize_column_name(headers[k]) IN
          /\ result[k][1] = headers[k]
          /\ result[k][2] = IF b \notin Assigned(k) THEN b
                            ELSE CutCandidate(b, SmallestFree(b, k))

(* Email, email-like and EMAIL-like headers got email, email_2, email_3 *)
C3_Witness ==
    /\ pc = "done"
    /\ headers = <<"Email", "EMAIL", "EMAIL">>
    /\ result = << <<"Email", "email">>, <<"EMAIL", "email_2">>, <<"EMAIL", "email_3">> >>

(* the loop changes nothing but the counter, so it ends exactly when some
   counter value from the current one on gives a candidate that is not in
   seen *)
LoopCanEnd ==
    \E n \in seen[base]..(seen[base] + MaxCount) : CutCandidate(base, n) \notin DOMAIN seen

(* C10, as stated: whenever the disambiguation loop runs it ends, also when
   the repeated base name is at the 63-character limit, so that
   build_column_map returns. *)
C10_LoopEnds == pc = "while" => LoopCanEnd

(* C10, as a property of whole runs: build_column_map returns. *)
C10_Terminates == <>(pc = "done")

(* The loop is without end only for a base name so long that every candidate
   is cut back to one and the same taken name; the model stops counting at
   MaxCount, and the counter gets there in no other case. *)
StuckOnlyAtLimit ==
    /\ (pc = "while" /\ ~LoopCanEnd) => Len(base) + 1 >= MaxIdentLen
    /\ (pc = "while" /\ seen[base] = MaxCount) => ~LoopCanEnd

-----------------------------------------------------------------------------
(* filter_rows *)

HasKey(row, key) == \E i \in 1..Len(row) : row[i][1] = key

(* dict.get(key, default) *)
get(row, key, default) ==
    IF HasKey(row, key)
    THEN row[CHOOSE i \in 1..Len(row) : row[i][1] = key][2]
    ELSE default

(* list(row.keys()) *)
keys(row) == [i \in 1..Len(row) |-> row[i][1]]

TEST_ENTRIES == {<<"john", "doe">>, <<"test", "subject">>}

(* lines 136-137, 142: if (given, family) in TEST_ENTRIES *)
IsTestEntry(row) ==
    LET given  == lower[strip(get(row, "given_name", ""))]
        family == lower[strip(get(row, "family_name", ""))]
    IN  <<given, family>> \in TEST_ENTRIES

(* a contact test that asks for both an email and a phone *)
NoContactEither(row) ==
    LET email == strip(get(row, "email_address", ""))
        phone == strip(get(row, "phone_number", ""))
    IN  email = "" \/ phone = ""

(* lines 138-139, 146: if not email and not phone *)
NoContact(row) ==
    LET email == strip(get(row, "email_address", ""))
        phone == strip(get(row, "phone_number", ""))
    IN  email = "" /\ phone = ""

RemoveAt(q, i) == SubSeq(q, 1, i - 1) \o SubSeq(q, i + 1, Len(q))

(* a filter that removes the dropped rows from the list it iterates over:
   the for loop's index moves on after a removal and skips the next row *)
filter_rows_in_place(rs) ==
    LET step[q \in Seq(Seq(Seq(STRING))), i \in Nat] ==
            IF i > Len(q) THEN q
            ELSE IF IsTestEntry(q[i]) \/ NoContact(q[i])
                 THEN step[RemoveAt(q, i), i + 1]
                 ELSE step[q, i + 1]
    IN  step[rs, 1]

(* a filter that keeps every row *)
filter_rows_none(rs) == rs

(* lines 128-150: kept_after[i] is the list kept after i iterations *)
filter_rows(rs) ==
    LET kept_after[i \in 0..Len(rs)] ==
            IF i = 0 THEN <<>>
            ELSE IF IsTestEntry(rs[i]) THEN kept_after[i - 1]
            ELSE IF NoContact(rs[i]) THEN kept_after[i - 1]
            ELSE Append(kept_after[i - 1], rs[i])
    IN  kept_after[Len(rs)]

-----------------------------------------------------------------------------
(* Specification SpecFilter: filter_rows run on a row list, then on its result *)

Contact(g, f, e, p) ==
    << <<"given_name", g>>, <<"family_name", f>>,
       <<"email_address", e>>, <<"phone_number", p>> >>

JohnDoe == Contact("John", "Doe", "", "")
AnnB == Contact("A", "B", "a@b.com", "")
ONeil == Contact("O'Neil", "", "o'n@x.io", "''")
PhoneOnly == << <<"given_name", "E">>, <<"phone_number", "1">> >>

(* rows that are kept and rows that each rule drops, with padding, other
   letter case, missing keys and a quote in a cell *)
RowPool ==
    { JohnDoe,
      AnnB,
      Contact("John", "Doe", "j@x.io", "555"),
      Contact(" test ", "SUBJECT", "", "555"),
      Contact("John", "Subject", "", "555"),
      Contact("A", "B", " ", "\t"),
      ONeil,
      PhoneOnly,
      << <<"given_name", "F">>, <<"family_name", "G">> >>,
      << <<"id_2", "7">>, <<"email_address", "h@x.io">>, <<"Id", "">> >> }

InitFilter ==
    /\ pc = "call"
    /\ rows \in SeqsOver(RowPool, MaxRows)
    /\ kept = <<>>
    /\ again = <<>>
    /\ SanIdle /\ MapIdle /\ DrvIdle

Filter ==
    /\ pc = "call"
    /\ kept' = filter_rows(rows)
    /\ pc' = "filtered"
    /\ UNCHANGED <<rows, again, sanVars, mapVars, drvVars>>

FilterAgain ==
    /\ pc = "filtered"
    /\ again' = filter_rows(kept)
    /\ pc' = "refiltered"
    /\ UNCHANGED <<rows, kept, sanVars, mapVars, drvVars>>

NextFilter == Filter \/ FilterAgain

SpecFilter == InitFilter /\ [][NextFilter]_vars

(* the two rules, as the claim words them *)
InDenylist(row) ==
    <<lower[strip(get(row, "given_name", ""))],
      lower[strip(get(row, "family_name", ""))]>> \in TEST_ENTRIES
BothContactsEmpty(row) ==
    strip(get(row, "email_address", "")) = "" /\ strip(get(row, "phone_number", "")) = ""
KeptByRules(row) == ~InDenylist(row) /\ ~BothContactsEmpty(row)

(* the positions of the rows both rules keep, in increasing order *)
KeptPositions(rs) == {i \in 1..Len(rs) : KeptByRules(rs[i])}
NthKept(rs, n) ==
    CHOOSE i \in KeptPositions(rs) :
        Cardinality({j \in KeptPositions(rs) : j < i}) = n - 1

(* C7: the call returns exactly the rows of its argument that both rules
   keep, unchanged and in their original order, and leaves its argument as
   it was. *)
C7_FilterKeepsExactly ==
    [][(pc = "call" /\ pc' = "filtered") =>
          /\ Len(kept') = Cardinality(KeptPositions(rows))
          /\ \A n \in 1..Len(kept') : kept'[n] = rows[NthKept(rows, n)]
          /\ rows' = rows]_vars

(* the example of the specification: John Doe is dropped, the row with an
   email is returned *)
C7_Witness ==
    /\ pc = "filtered"
    /\ rows = <<JohnDoe, AnnB>>
    /\ kept = <<AnnB>>

(* C8: filtering the result of filter_rows again returns that result. *)
C8_FilterIdempotent == pc = "refiltered" => again = kept

(* a list from which the first pass dropped rows has been filtered twice *)
C8_Witness ==
    /\ pc = "refiltered"
    /\ Len(rows) = MaxRows
    /\ 0 < Len(kept)
    /\ Len(kept) < Len(rows)

-----------------------------------------------------------------------------
(* rows_to_values and the SQL builder.  A value is <<>> for None and <<v>>
   for the string v. *)

None == <<>>

(* lines 153-161 *)
rows_to_values(rs, hs) ==
    [i \in 1..Len(rs) |->
        [j \in 1..Len(hs) |->
            LET v == get(rs[i], hs[j], "") IN IF v = "" THEN None ELSE <<v>>]]

(* an escape that quotes the text without doubling its quotes *)
escape_sql_value_undoubled(val) ==
    IF val = None THEN "NULL" ELSE "'" \o val[1] \o "'"

(* lines 166-171 *)
escape_sql_value(val) ==
    IF val = None THEN "NULL" ELSE "'" \o replace[val[1], "'", "''"] \o "'"

(* sep.join(parts) *)
join(sep, parts) ==
    LET upto[n \in 0..Len(parts)] ==
            IF n = 0 THEN ""
            ELSE IF n = 1 THEN parts[1]
            ELSE upto[n - 1] \o sep \o parts[n]
    IN  upto[Len(parts)]

(* lines 174-179 *)
build_values_clause(value_rows) ==
    join(",\n",
         [i \in 1..Len(value_rows) |->
             "(" \o join(", ", [j \in 1..Len(value_rows[i]) |->
                                   escape_sql_value(value_rows[i][j])]) \o ")"])

(* lines 182-206 *)
build_full_sql(table, col_names, value_rows) ==
    LET drop      == "DROP TABLE IF EXISTS \"" \o table \o "\";"
        cols_ddl  == join(",\n    ", [j \in 1..Len(col_names) |->
                                         "\"" \o col_names[j] \o "\" TEXT"])
        create    == "CREATE TABLE \"" \o table \o "\" (\n"
                     \o "    id SERIAL PRIMARY KEY,\n"
                     \o "    " \o cols_ddl \o "\n"
                     \o ");"
        cols_list == join(", ", [j \in 1..Len(col_names) |-> "\"" \o col_names[j] \o "\""])
        values    == build_values_clause(value_rows)
        insert    == "INSERT INTO \"" \o table \o "\" (" \o cols_list \o ") VALUES\n"
                     \o values \o ";"
    IN  drop \o "\n" \o create \o "\n" \o insert

-----------------------------------------------------------------------------
(* Configuration and the scripts' main() *)

(* the settings each script raises on when unset or empty *)
Required ==
    [ replace |-> {"SUPABASE_PROJECT_REF", "SUPABASE_MANAGEMENT_KEY", "SUPABASE_TABLE"},
      upsert  |-> {"SUPABASE_URL", "SUPABASE_KEY", "SUPABASE_TABLE", "SUPABASE_PK"},
      fetch   |-> {"GOOGLE_SHEET_ID"} ]

(* the settings with a default: COLUMN_MAP ("{}"), GOOGLE_SHEET_NAME ("Sheet1") *)
Optional ==
    [ replace |-> {},
      upsert  |-> {"COLUMN_MAP"},
      fetch   |-> {"GOOGLE_SHEET_NAME"} ]

(* os.getenv("SUPABASE_TABLE") when it is set *)
TABLE_NAME == "people"

(* `not rows` taken to be false for every list *)
NotRowsNever(rs) == FALSE

(* `not rows`: the list is empty *)
NotRows(rs) == Len(rs) = 0

Fail == /\ exit' = "error"
        /\ pc' = "exit"

Succeed == /\ exit' = "ok"
           /\ pc' = "exit"

(* create_table_and_insert.py lines 232-237 *)
R_Validate ==
    /\ script = "replace" /\ pc = "main"
    /\ IF \/ "SUPABASE_PROJECT_REF" \notin env
          \/ "SUPABASE_MANAGEMENT_KEY" \notin env
          \/ "SUPABASE_TABLE" \notin env
       THEN Fail
       ELSE pc' = "load" /\ UNCHANGED exit
    /\ UNCHANGED <<script, env, file, stored, io, sent, sanVars, mapVars, filVars>>

(* line 240, load_rows lines 109-119 *)
R_Load ==
    /\ script = "replace" /\ pc = "load"
    /\ CASE file = "absent" ->
                /\ io' = Append(io, "stat")
                /\ Fail
                /\ UNCHANGED rows
         [] file = "notlist" ->
                /\ io' = io \o <<"stat", "read">>
                /\ Fail
                /\ UNCHANGED rows
         [] file = "list" ->
                /\ io' = io \o <<"stat", "read">>
                /\ rows' = stored
                /\ pc' = "loaded"
                /\ UNCHANGED exit
    /\ UNCHANGED <<script, env, file, stored, sent, kept, again, sanVars, mapVars>>

(* lines 241-243 *)
R_Empty ==
    /\ script = "replace" /\ pc = "loaded"
    /\ NotRows(rows)
    /\ Succeed
    /\ UNCHANGED <<script, env, file, stored, io, sent, sanVars, mapVars, filVars>>

(* lines 245-247 *)
R_Filter ==
    /\ script = "replace" /\ pc = "loaded"
    /\ ~NotRows(rows)
    /\ rows' = filter_rows(rows)
    /\ pc' = "filtered"
    /\ UNCHANGED <<drvVars, kept, again, sanVars, mapVars>>

(* lines 249-251 *)
R_FilteredEmpty ==
    /\ script = "replace" /\ pc = "filtered"
    /\ NotRows(rows)
    /\ Succeed
    /\ UNCHANGED <<script, env, file, stored, io, sent, sanVars, mapVars, filVars>>

(* lines 254-257: the headers of the first row, and the call of
   build_column_map; rows[0] of an empty list raises IndexError *)
R_Headers ==
    /\ script = "replace" /\ pc = "filtered"
    /\ ~NotRows(rows)
    /\ IF Len(rows) = 0
       THEN Fail /\ UNCHANGED mapVars
       ELSE /\ headers' = keys(rows[1])
            /\ pos' = 1
            /\ seen' = SeenInit
            /\ result' = <<>>
            /\ pc' = "for"
            /\ UNCHANGED <<base, candidate, exit>>
    /\ UNCHANGED <<script, env, file, stored, io, sent, sanVars, filVars>>

(* lines 258-280, run_query lines 211-225: the statement is built and
   posted; the collaborator answers with a success status or another *)
R_Send ==
    /\ script = "replace" /\ pc = "mapped"
    /\ LET sanitized_names == [k \in 1..Len(result) |-> result[k][2]]
           value_rows      == rows_to_values(rows, headers)
           sql             == build_full_sql(TABLE_NAME, sanitized_names, value_rows)
       IN  sent' = Append(sent, [by |-> "replace", rows |-> rows, payload |-> sql])
    /\ io' = Append(io, "net")
    /\ \/ Succeed
       \/ Fail
    /\ UNCHANGED <<script, env, file, stored, sanVars, mapVars, filVars>>

(* dict item assignment: new_row[key] = value *)
SetItem(row, key, value) ==
    IF HasKey(row, key)
    THEN [i \in 1..Len(row) |-> IF row[i][1] = key THEN <<key, value>> ELSE row[i]]
    ELSE Append(row, <<key, value>>)

(* json.loads(COLUMN_MAP_RAW): the configured renaming, or the default {} *)
COLUMN_MAP == IF "COLUMN_MAP" \in env THEN [k \in {"given_name"} |-> "first_name"] ELSE <<>>

(* upsert_to_supabase.py lines 44-53 *)
apply_column_map(rs, col_map) ==
    [i \in 1..Len(rs) |->
        LET new_row[n \in 0..Len(rs[i])] ==
                IF n = 0 THEN <<>>
                ELSE LET key     == rs[i][n][1]
                         new_key == IF key \in DOMAIN col_map THEN col_map[key] ELSE key
                     IN  SetItem(new_row[n - 1], new_key, rs[i][n][2])
        IN  new_row[Len(rs[i])]]

(* upsert_to_supabase.py lines 75-76 *)
U_Validate ==
    /\ script = "upsert" /\ pc = "main"
    /\ IF "SUPABASE_TABLE" \notin env \/ "SUPABASE_PK" \notin env
       THEN Fail
       ELSE pc' = "exists" /\ UNCHANGED exit
    /\ UNCHANGED <<script, env, file, stored, io, sent, sanVars, mapVars, filVars>>

(* lines 78-81 *)
U_Exists ==
    /\ script = "upsert" /\ pc = "exists"
    /\ io' = Append(io, "stat")
    /\ IF file = "absent"
       THEN Fail
       ELSE pc' = "load" /\ UNCHANGED exit
    /\ UNCHANGED <<script, env, file, stored, sent, sanVars, mapVars, filVars>>

(* lines 84-85: json.load, of any JSON value; a value that is not a list is
   one whose items are not rows *)
U_Load ==
    /\ script = "upsert" /\ pc = "load"
    /\ io' = Append(io, "read")
    /\ rows' = IF file = "list" THEN stored ELSE << <<>> >>
    /\ pc' = "loaded"
    /\ UNCHANGED <<script, env, file, stored, sent, exit, kept, again, sanVars, mapVars>>

(* lines 87-89 *)
U_Empty ==
    /\ script = "upsert" /\ pc = "loaded"
    /\ NotRows(rows)
    /\ Succeed
    /\ UNCHANGED <<script, env, file, stored, io, sent, sanVars, mapVars, filVars>>

(* lines 92-94: row.items() raises on an item that is not a dict *)
U_Map ==
    /\ script = "upsert" /\ pc = "loaded"
    /\ ~NotRows(rows)
    /\ IF file # "list"
       THEN Fail /\ UNCHANGED kept
       ELSE /\ kept' = apply_column_map(rows, COLUMN_MAP)
            /\ pc' = "mapped"
            /\ UNCHANGED exit
    /\ UNCHANGED <<script, env, file, stored, io, sent, rows, again, sanVars, mapVars>>

(* line 97, get_client lines 39-42 *)
U_Client ==
    /\ script = "upsert" /\ pc = "mapped"
    /\ IF "SUPABASE_URL" \notin env \/ "SUPABASE_KEY" \notin env
       THEN Fail
       ELSE pc' = "client" /\ UNCHANGED exit
    /\ UNCHANGED <<script, env, file, stored, io, sent, sanVars, mapVars, filVars>>

(* lines 98-101, upsert_rows lines 58-69 *)
U_Upsert ==
    /\ script = "upsert" /\ pc = "client"
    /\ IF NotRows(kept)
       THEN UNCHANGED <<io, sent>> /\ Fail
       ELSE /\ sent' = Append(sent, [by |-> "upsert", rows |-> rows, payload |-> kept])
            /\ io' = Append(io, "net")
            /\ \/ Succeed
               \/ Fail
    /\ UNCHANGED <<script, env, file, stored, sanVars, mapVars, filVars>>

(* fetch_google_sheet.py lines 90-97: rows padded to the header width *)
zip_rows(values) ==
    IF Len(values) < 2 THEN <<>>
    ELSE LET hs == values[1] IN
         [i \in 1..(Len(values) - 1) |->
             [j \in 1..Len(hs) |->
                 <<hs[j], IF j <= Len(values[i + 1]) THEN values[i + 1][j] ELSE "">>]]

(* what the sheet may hold: nothing, headers only, full and short rows *)
SheetPool ==
    { <<>>,
      << <<"given_name", "email_address">> >>,
      << <<"given_name", "email_address">>, <<"A", "a@b.com">> >>,
      << <<"given_name", "email_address">>, <<"A", "a@b.com">>, <<"B">> >> }

(* fetch_google_sheet.py lines 104-105 *)
F_Validate ==
    /\ script = "fetch" /\ pc = "main"
    /\ IF "GOOGLE_SHEET_ID" \notin env
       THEN Fail
       ELSE pc' = "fetch" /\ UNCHANGED exit
    /\ UNCHANGED <<script, env, file, stored, io, sent, sanVars, mapVars, filVars>>

(* lines 107-109, fetch_sheet lines 72-98: the token file is read, the sheet
   is requested, and the request fails or answers with the sheet's cells *)
F_Fetch ==
    /\ script = "fetch" /\ pc = "fetch"
    /\ io' = io \o <<"stat", "read", "net">>
    /\ \/ Fail /\ UNCHANGED rows
       \/ \E values \in SheetPool :
             /\ rows' = zip_rows(values)
             /\ pc' = "fetched"
             /\ UNCHANGED exit
    /\ UNCHANGED <<script, env, file, stored, sent, kept, again, sanVars, mapVars>>

(* lines 111-115 *)
F_Write ==
    /\ script = "fetch" /\ pc = "fetched"
    /\ io' = Append(io, "write")
    /\ file' = "list"
    /\ stored' = rows
    /\ Succeed
    /\ UNCHANGED <<script, env, sent, sanVars, mapVars, filVars>>

-----------------------------------------------------------------------------
(* Specification Spec: one run of one script *)

Init ==
    /\ pc = "main"
    /\ script \in {"replace", "upsert", "fetch"}
    /\ env \in SUBSET (Required[script] \cup Optional[script])
    /\ file \in {"absent", "notlist", "list"}
    /\ stored \in (IF file = "list" THEN SeqsOver(RowPool, MaxStored) ELSE {<<>>})
    /\ script = "fetch" => file = "absent"
    /\ io = <<>>
    /\ sent = <<>>
    /\ exit = "running"
    /\ SanIdle /\ MapIdle /\ FilIdle

Next ==
    \/ R_Validate \/ R_Load \/ R_Empty \/ R_Filter \/ R_FilteredEmpty \/ R_Headers
    \/ ForFresh \/ ForSeen \/ WhileTaken \/ WhileFree \/ Return
    \/ R_Send
    \/ U_Validate \/ U_Exists \/ U_Load \/ U_Empty \/ U_Map \/ U_Client \/ U_Upsert
    \/ F_Validate \/ F_Fetch \/ F_Write

Spec == Init /\ [][Next]_vars

-----------------------------------------------------------------------------
(* Properties of the scripts' runs *)

AllKept(rs) == \A i \in 1..Len(rs) : KeptByRules(rs[i])

(* the rows of rs that both rules keep, in order *)
Survivors(rs) == [n \in 1..Cardinality(KeptPositions(rs)) |-> rs[NthKept(rs, n)]]

(* C4, as stated: in a run of either load script no row that the Row
   Filter drops is handed to the database collaborator. *)
C4_AsStated == \A k \in 1..Len(sent) : AllKept(sent[k].rows)

(* C4, amended: the replace script hands the database collaborator a
   statement built from exactly the stored rows that the Row Filter keeps,
   none of them denylisted or without contact; the upsert script applies no
   Row Filter and hands over every stored row. *)
C4_FilterOnReplacePath ==
    \A k \in 1..Len(sent) :
        /\ sent[k].by = "replace" =>
              /\ AllKept(sent[k].rows)
              /\ sent[k].rows = Survivors(stored)
        /\ sent[k].by = "upsert" =>
              /\ sent[k].rows = stored
              /\ Len(sent[k].payload) = Len(stored)

(* the replace script sent a statement after the filter dropped a row *)
C4_Witness ==
    /\ script = "replace"
    /\ pc = "exit"
    /\ Len(sent) = 1
    /\ Len(stored) = MaxStored
    /\ Len(sent[1].rows) < Len(stored)

(* C5, as stated: with a required setting missing, no file is read or
   written, no network call is made, and the run never ends successfully. *)
C5_FailsBeforeIO ==
    ~(Required[script] \subseteq env) =>
        /\ \A k \in 1..Len(io) : io[k] \notin {"read", "write", "net"}
        /\ exit # "ok"

(* the row list was read from the file *)
LoadedRows ==
    /\ script \in {"replace", "upsert"}
    /\ file = "list"
    /\ \E k \in 1..Len(io) : io[k] = "read"

ZeroRows == LoadedRows /\ Len(rows) = 0

(* C6: once zero rows remain after loading or after filtering, the run is
   at the emptiness test or has ended, it has not failed, nothing was handed
   to the database collaborator and no network call was made; and its next
   step ends it successfully. *)
C6_ZeroRowsNoCall ==
    /\ [](ZeroRows =>
            /\ pc \in {"loaded", "filtered", "exit"}
            /\ exit # "error"
            /\ pc = "exit" => exit = "ok"
            /\ sent = <<>>
            /\ \A k \in 1..Len(io) : io[k] # "net")
    /\ [][(ZeroRows /\ pc # "exit") => (pc' = "exit" /\ exit' = "ok" /\ sent' = <<>>)]_vars

(* the replace script ended successfully, without a call, after the filter
   dropped every stored row *)
C6_Witness ==
    /\ script = "replace"
    /\ pc = "exit"
    /\ exit = "ok"
    /\ stored # <<>>
    /\ ZeroRows
    /\ sent = <<>>

(* the literal the claim gives for the cell of a row under a header *)
ExpectedLiteral(row, h) ==
    IF ~HasKey(row, h) \/ get(row, h, "") = "" THEN "NULL"
    ELSE "'" \o replace[get(row, h, ""), "'", "''"] \o "'"

ExpectedTuple(row, hs) ==
    "(" \o join(", ", [j \in 1..Len(hs) |-> ExpectedLiteral(row, hs[j])]) \o ")"

ExpectedValues(rs, hs) == join(",\n", [i \in 1..Len(rs) |-> ExpectedTuple(rs[i], hs)])

EndsWith(s, suffix) ==
    /\ Len(suffix) <= Len(s)
    /\ SubSeq(s, Len(s) - Len(suffix) + 1, Len(s)) = suffix

(* C9: the statement the replace script sends ends with a VALUES list that
   has one tuple per surviving row, in row order, each with one literal per
   header of the first surviving row (as many as there are columns): NULL
   for an empty or missing cell, otherwise the cell's text in single quotes
   with its single quotes doubled. *)
C9_InsertLiterals ==
    \A k \in 1..Len(sent) :
        sent[k].by = "replace" =>
            LET rs == Survivors(stored)
                hs == keys(rs[1])
            IN  /\ Len(result) = Len(hs)
                /\ EndsWith(sent[k].payload,
                            " VALUES\n" \o ExpectedValues(rs, hs) \o ";")

(* a statement was sent for a row with quotes in its cells and a row that
   lacks two of the first row's keys *)
C9_Witness ==
    /\ script = "replace"
    /\ Len(sent) = 1
    /\ stored = <<ONeil, PhoneOnly>>
    /\ EndsWith(sent[1].payload,
                "('O''Neil', NULL, 'o''n@x.io', ''''''),\n('E', NULL, NULL, '1');")

=============================================================================
